---- MODULE Spec2Model ----
(***************************************************************************)
(* Model of xdotool's "fakemap" command (cmd_fakemap.c).                   *)
(*                                                                         *)
(* The command captures the active keyboard layout, registers an exit hook *)
(* that restores it, switches the server to a flat layout with external    *)
(* tools, builds a by-character index of the new mapping table, grabs the  *)
(* keys whose binding changed and then translates grabbed key events.      *)
(***************************************************************************)
EXTENDS Integers, Sequences, FiniteSets, TLC

VARIABLES
    pc,              \* position of cmd_fakemap from the second refresh on: "index"
                     \* (line 141), "grab" (164), "loop" (196, waiting for an
                     \* event), "handled" (the end of an iteration of the loop),
                     \* "undefined" (after an access outside map_by_char),
                     \* "exited" (after exit(1) in the default error handler)
    charcodes,       \* context->xdo->charcodes after the second refresh (new layout)
    orig_charcodes,  \* copy of the table taken after the first refresh
    i,               \* index of the for loop that is running (0-based, as in C)
    map_by_char,     \* the calloc'ed by-character index; 0 is a NULL pointer,
                     \* k > 0 points at charcodes[k]
    grabs,           \* XGrabKey requests, in the order they were issued
    subscripts,      \* the subscripts of map_by_char the last step used
    xevent,          \* the event XNextEvent returned in the current iteration
    matched,         \* 1-based row of orig_charcodes the iteration translated, or 0
    focuswin,        \* what xdo_get_focused_window returned in the iteration
    sent,            \* XSendEvent requests of the current iteration, in order
    allowed,         \* XAllowEvents timestamps of the current iteration
    requests,        \* the X requests of the current iteration, in call order
    unknown,         \* characters printed as "unknown key" in the current iteration
    order,           \* call site and type of every XSendEvent of the previous
                     \* (it = 0) and the current (it = 1) iteration, in call
                     \* order, each with the event the iteration observed
    procs,           \* the processes: the command and what it forks
    toolCalls,       \* the execlp calls, in order
    error_handler,   \* the error handler Xlib calls (set by XSetErrorHandler)
    orig_error_handler,  \* the static of line 28
    errors,          \* error codes the server has sent and Xlib has not yet
                     \* passed to the error handler
    handled,         \* the errors passed to a handler and what became of them
    faults           \* the error code the server answers a grab of a pair with

mapVars  == <<pc, charcodes, orig_charcodes, i, map_by_char, grabs, subscripts>>
loopVars == <<xevent, matched, focuswin, sent, allowed, requests, unknown, order>>
lifeVars == <<procs, toolCalls>>
errVars  == <<error_handler, orig_error_handler, errors, handled, faults>>
vars     == <<pc, charcodes, orig_charcodes, i, map_by_char, grabs, subscripts,
              xevent, matched, focuswin, sent, allowed, requests, unknown, order,
              procs, toolCalls,
              error_handler, orig_error_handler, errors, handled, faults>>

(***************************************************************************)
(* X11 constants (X.h) used by the command.                                *)
(***************************************************************************)
ShiftMask   == 1
ControlMask == 4
Mod5Mask    == 128
Level3Bit   == 128      \* the literal 0x80 of line 263
KeyPress    == 2
KeyRelease  == 3
KeyPressMask   == 1
KeyReleaseMask == 2
PRESERVED_MODS == ControlMask
NULL == 0

\* Bitwise operations of C on non-negative ints.
RECURSIVE BitAnd(_, _)
BitAnd(a, b) ==
    IF a = 0 \/ b = 0 THEN 0
    ELSE (a % 2) * (b % 2) + 2 * BitAnd(a \div 2, b \div 2)

RECURSIVE BitOr(_, _)
BitOr(a, b) ==
    IF a = 0 THEN b
    ELSE IF b = 0 THEN a
    ELSE (IF a % 2 = 1 \/ b % 2 = 1 THEN 1 ELSE 0) + 2 * BitOr(a \div 2, b \div 2)

RECURSIVE BitXor(_, _)
BitXor(a, b) ==
    IF a = 0 THEN b
    ELSE IF b = 0 THEN a
    ELSE ((a + b) % 2) + 2 * BitXor(a \div 2, b \div 2)

\* a & ~b
BitClear(a, b) == a - BitAnd(a, b)

\* iscntrl(3) on the characters of the model: the C0 controls and DEL.
iscntrl(c) == c \in 0..31 \/ c = 127

\* What the call iscntrl(c) can return for the wide character c. It takes an
\* unsigned char value: 0..127 are classified as above in every locale, what
\* 128..159 are depends on the locale of line 72 (controls in a Latin-1 locale,
\* no characters at all in a UTF-8 locale), 160..255 are no controls, and the
\* call is undefined for a value above 255.
IscntrlResults(c) ==
    IF c \in 0..127 THEN {iscntrl(c)}
    ELSE IF c \in 128..159 THEN BOOLEAN
    ELSE IF c \in 160..255 THEN {FALSE}
    ELSE BOOLEAN

\* Line 134: calloc(sizeof(charcodemap_t*), 1<<16).
MapSize == 65536

\* The subscript c is inside the allocated index.
InArray(c) == c \in 0..(MapSize - 1)

\* Every sequence over S of length at most n.
TablesUpTo(S, n) == UNION {[1..k -> S] : k \in 0..n}

(***************************************************************************)
(* Characters, key codes and the bounded mapping tables of the model.      *)
(***************************************************************************)
\* 9 is a control character (TAB), 97 is 'a', 133 is the control character
\* NEL (U+0085), 233 is e acute, 8364 is the euro sign (U+20AC).
ModelChars == {9, 97, 133, 233, 8364}

\* A character a wchar_t key can hold above the 16-bit range: U+1F600.
BeyondChars == {128512}

\* The key codes 0x12 and 0x34.
ModelCodes == {18, 52}

MaxIndexRows == 3

IndexRows ==
    [key : {97, 9}, code : {18}, symbol : {1, 2, 3}, group : {0},
     modmask : {0, ShiftMask, Mod5Mask}]

NoEvent ==
    [type |-> 0, keycode |-> 0, state |-> 0, send_event |-> FALSE, time |-> 0,
     window |-> "root"]

EmptyIndex == [c \in ModelChars |-> NULL]

(***************************************************************************)
(* build_preferred_index: lines 141-157, one loop iteration.               *)
(***************************************************************************)
IndexRowNoModmask(m, table, idx) ==
    LET map == table[idx]
        cur == m[map.key]
    IN  IF iscntrl(map.key) THEN m
        ELSE IF cur # NULL /\ table[cur].symbol < map.symbol THEN m
        ELSE [m EXCEPT ![map.key] = idx]

IndexRow(m, table, idx) ==
    LET map == table[idx]
        cur == m[map.key]
    IN  IF iscntrl(map.key) THEN m
        ELSE IF cur # NULL /\ iscntrl(map.key) THEN m
        ELSE IF cur # NULL /\ table[cur].symbol < map.symbol THEN m
        ELSE IF cur # NULL /\ table[cur].modmask < map.modmask THEN m
        ELSE [m EXCEPT ![map.key] = idx]

\* Lines 141-157, one iteration. A row whose character iscntrl reports as a
\* control is skipped; any other row reads and writes map_by_char[map->key],
\* which is outside the array for a key of 1<<16 or more.
IndexStep ==
    /\ pc = "index"
    /\ i < Len(charcodes)
    /\ \E cntrl \in IscntrlResults(charcodes[i + 1].key) :
           IF cntrl
           THEN /\ subscripts' = {}
                /\ UNCHANGED <<pc, map_by_char>>
           ELSE /\ subscripts' = {charcodes[i + 1].key}
                /\ IF InArray(charcodes[i + 1].key)
                   THEN /\ map_by_char' = IndexRow(map_by_char, charcodes, i + 1)
                        /\ pc' = pc
                   ELSE /\ pc' = "undefined"
                        /\ UNCHANGED map_by_char
    /\ i' = i + 1
    /\ UNCHANGED <<charcodes, orig_charcodes, grabs>>
    /\ UNCHANGED loopVars
    /\ UNCHANGED lifeVars
    /\ UNCHANGED errVars

\* Lines 160-164: the index is built; the error handler of the grab loop is
\* installed and the one it replaces is kept in orig_error_handler.
IndexDone ==
    /\ pc = "index"
    /\ i = Len(charcodes)
    /\ pc' = "grab"
    /\ i' = 0
    /\ subscripts' = {}
    /\ orig_error_handler' = error_handler
    /\ error_handler' = "ignore_already_grabbed"
    /\ UNCHANGED <<charcodes, orig_charcodes, map_by_char, grabs>>
    /\ UNCHANGED <<errors, handled, faults>>
    /\ UNCHANGED loopVars
    /\ UNCHANGED lifeVars

InitRest ==
    /\ i = 0
    /\ map_by_char = EmptyIndex
    /\ grabs = <<>>
    /\ xevent = NoEvent
    /\ matched = 0
    /\ focuswin = 0
    /\ sent = <<>>
    /\ allowed = <<>>
    /\ requests = <<>>
    /\ unknown = <<>>
    /\ order = <<>>
    /\ procs = <<>>
    /\ toolCalls = <<>>
    /\ subscripts = {}
    /\ orig_error_handler = "NULL"
    /\ errors = <<>>
    /\ handled = <<>>

\* The server refuses no grab, and no error handler was set before: Xlib
\* calls its default one.
QuietServer ==
    /\ error_handler = "_XDefaultError"
    /\ faults = <<>>

InitIndex ==
    /\ pc = "index"
    /\ charcodes \in TablesUpTo(IndexRows, MaxIndexRows)
    /\ orig_charcodes = <<>>
    /\ InitRest
    /\ QuietServer

NextIndex == IndexStep \/ IndexDone

SpecIndex == InitIndex /\ [][NextIndex]_vars

\* The rows of the new table that produce character c, as row numbers.
RowsFor(c) == {k \in 1..Len(charcodes) : charcodes[k].key = c}

IndexBuilt == pc # "index"

\* C4: with exactly three rows for a printable character, of three different
\* symbols and any modifier masks, the finished index holds the row of the
\* lowest symbol, whatever the order of the rows.
C4_LowestSymbolAnyOrder ==
    \A c \in ModelChars :
        (/\ IndexBuilt
         /\ ~iscntrl(c)
         /\ Cardinality(RowsFor(c)) = 3
         /\ Cardinality({charcodes[k].symbol : k \in RowsFor(c)}) = 3)
        => /\ map_by_char[c] # NULL
           /\ \A k \in RowsFor(c) :
                  charcodes[map_by_char[c]].symbol <= charcodes[k].symbol

\* C10: with exactly two rows for a printable character, of equal symbols and
\* different modifier masks, the finished index holds the row of the lower
\* mask, in either order of the rows.
C10_LowerModmaskOnEqualSymbol ==
    \A c \in ModelChars :
        (/\ IndexBuilt
         /\ ~iscntrl(c)
         /\ Cardinality(RowsFor(c)) = 2
         /\ Cardinality({charcodes[k].symbol : k \in RowsFor(c)}) = 1
         /\ Cardinality({charcodes[k].modmask : k \in RowsFor(c)}) = 2)
        => /\ map_by_char[c] # NULL
           /\ \A k \in RowsFor(c) :
                  charcodes[map_by_char[c]].modmask <= charcodes[k].modmask

\* The second of two equal-symbol rows has the lower mask and displaced the first.
C10_Witness ==
    /\ IndexBuilt
    /\ Len(charcodes) = 2
    /\ charcodes[1].key = 97 /\ charcodes[2].key = 97
    /\ charcodes[1].symbol = charcodes[2].symbol
    /\ charcodes[2].modmask < charcodes[1].modmask
    /\ map_by_char[97] = 2

(***************************************************************************)
(* Key grabbing: lines 160-194.                                            *)
(***************************************************************************)
MaxGrabOrigRows == 2
MaxGrabNewRows  == 2

GrabOrigRows ==
    [key : {97, 233}, code : ModelCodes, symbol : {1}, group : {0, 1},
     modmask : {0, ControlMask}]

GrabNewRows ==
    [key : {97, 233}, code : {18}, symbol : {1}, group : {0},
     modmask : {0, ShiftMask}]

\* One XGrabKey(dpy, keycode, modifiers, root, False, GrabModeAsync, GrabModeSync).
GrabKey(keycode, modifiers) ==
    [keycode |-> keycode, modifiers |-> modifiers, grab_window |-> "root",
     owner_events |-> FALSE, pointer_mode |-> "GrabModeAsync",
     keyboard_mode |-> "GrabModeSync"]

\* Mutants of GrabRequests: the pairs of the preferred binding are grabbed, the
\* unchanged rows are grabbed too, the Control chord is not grabbed.
GrabRequestsOfPreferred(chr, m, table) ==
    LET map == m[chr.key]
    IN  IF map = NULL THEN <<>>
        ELSE IF table[map].code = chr.code /\ table[map].modmask = chr.modmask
             THEN <<>>
        ELSE <<GrabKey(table[map].code, table[map].modmask),
               GrabKey(table[map].code, BitOr(table[map].modmask, ControlMask))>>

GrabRequestsOfEveryRow(chr, m, table) ==
    LET map == m[chr.key]
    IN  IF map = NULL THEN <<>>
        ELSE <<GrabKey(chr.code, chr.modmask),
               GrabKey(chr.code, BitOr(chr.modmask, ControlMask))>>

GrabRequestsNoChord(chr, m, table) ==
    LET map == m[chr.key]
    IN  IF map = NULL THEN <<>>
        ELSE IF table[map].code = chr.code /\ table[map].modmask = chr.modmask
             THEN <<>>
        ELSE <<GrabKey(chr.code, chr.modmask)>>

\* Lines 165-191: the XGrabKey requests of one row chr of the original table.
GrabRequests(chr, m, table) ==
    LET map == m[chr.key]
    IN  IF map = NULL THEN <<>>
        ELSE IF table[map].code = chr.code /\ table[map].modmask = chr.modmask
             THEN <<>>
        ELSE <<GrabKey(chr.code, chr.modmask),
               GrabKey(chr.code, BitOr(chr.modmask, ControlMask))>>

\* The error code the server answers the grab of (keycode, modifiers) with.
Fault(keycode, modifiers) ==
    IF <<keycode, modifiers>> \in DOMAIN faults
    THEN faults[<<keycode, modifiers>>]
    ELSE "Success"

\* The errors the server sends for a sequence of XGrabKey requests, in order.
RECURSIVE ErrorsOf(_)
ErrorsOf(reqs) ==
    IF reqs = <<>> THEN <<>>
    ELSE LET code == Fault(Head(reqs).keycode, Head(reqs).modifiers)
         IN  (IF code = "Success" THEN <<>> ELSE <<code>>) \o ErrorsOf(Tail(reqs))

\* Lines 164-192, one iteration: map_by_char[chr.key] is read, outside the
\* array for a key of 1<<16 or more; the grabs of the row are requested and
\* the server answers the refused ones with an error.
GrabStep ==
    /\ pc = "grab"
    /\ i < Len(orig_charcodes)
    /\ subscripts' = {orig_charcodes[i + 1].key}
    /\ IF InArray(orig_charcodes[i + 1].key)
       THEN /\ grabs' = grabs \o GrabRequests(orig_charcodes[i + 1], map_by_char,
                                               charcodes)
            /\ errors' = errors \o ErrorsOf(GrabRequests(orig_charcodes[i + 1],
                                                         map_by_char, charcodes))
            /\ pc' = pc
       ELSE /\ pc' = "undefined"
            /\ UNCHANGED <<grabs, errors>>
    /\ i' = i + 1
    /\ UNCHANGED <<charcodes, orig_charcodes, map_by_char>>
    /\ UNCHANGED <<error_handler, orig_error_handler, handled, faults>>
    /\ UNCHANGED loopVars
    /\ UNCHANGED lifeVars

\* Mutant of IgnoreAlreadyGrabbed: every error is logged and ignored.
IgnoreEveryError(error_code, orig) ==
    [error_code |-> error_code, by |-> "ignore_already_grabbed", logged |-> TRUE]

\* Lines 325-330: what ignore_already_grabbed does with an error, orig being
\* orig_error_handler.
IgnoreAlreadyGrabbed(error_code, orig) ==
    IF error_code # "BadAccess"
    THEN [error_code |-> error_code, by |-> orig, logged |-> FALSE]
    ELSE [error_code |-> error_code, by |-> "ignore_already_grabbed", logged |-> TRUE]

\* Xlib reads an error and calls the error handler that is set.
XError ==
    /\ pc \in {"grab", "loop"}
    /\ errors # <<>>
    /\ LET outcome ==
               IF error_handler = "ignore_already_grabbed"
               THEN IgnoreAlreadyGrabbed(Head(errors), orig_error_handler)
               ELSE [error_code |-> Head(errors), by |-> error_handler,
                     logged |-> FALSE]
       IN  /\ handled' = Append(handled, outcome)
           \* the default handler of Xlib prints the error and calls exit(1)
           /\ pc' = IF outcome.by = "_XDefaultError" THEN "exited" ELSE pc
    /\ errors' = Tail(errors)
    /\ UNCHANGED <<charcodes, orig_charcodes, i, map_by_char, grabs, subscripts>>
    /\ UNCHANGED <<error_handler, orig_error_handler, faults>>
    /\ UNCHANGED loopVars
    /\ UNCHANGED lifeVars

\* Lines 193-194: the loop is over; XSync returns once every error of the
\* requests was passed to the handler; the handler of before is put back and
\* the event loop is entered.
GrabDone ==
    /\ pc = "grab"
    /\ i = Len(orig_charcodes)
    /\ errors = <<>>
    /\ pc' = "loop"
    /\ i' = 0
    /\ subscripts' = {}
    /\ error_handler' = orig_error_handler
    /\ UNCHANGED <<charcodes, orig_charcodes, map_by_char, grabs>>
    /\ UNCHANGED <<orig_error_handler, errors, handled, faults>>
    /\ UNCHANGED loopVars
    /\ UNCHANGED lifeVars

InitGrab ==
    /\ pc = "index"
    /\ charcodes \in TablesUpTo(GrabNewRows, MaxGrabNewRows)
    /\ orig_charcodes \in TablesUpTo(GrabOrigRows, MaxGrabOrigRows)
    /\ InitRest
    /\ QuietServer

NextGrab == IndexStep \/ IndexDone \/ GrabStep \/ GrabDone

SpecGrab == InitGrab /\ [][NextGrab]_vars

GrabsInstalled == pc = "loop"

\* The (key code, modifier mask) pairs for which a grab was requested.
GrabbedPairs == {<<grabs[k].keycode, grabs[k].modifiers>> : k \in 1..Len(grabs)}

\* The preferred new-layout binding of original row k, when there is one.
HasPreferred(k) == map_by_char[orig_charcodes[k].key] # NULL
Preferred(k) == charcodes[map_by_char[orig_charcodes[k].key]]

\* Original row k has a preferred binding that differs in key code or mask.
Changed(k) ==
    /\ HasPreferred(k)
    /\ \/ Preferred(k).code # orig_charcodes[k].code
       \/ Preferred(k).modmask # orig_charcodes[k].modmask

Unchanged(k) ==
    /\ HasPreferred(k)
    /\ Preferred(k).code = orig_charcodes[k].code
    /\ Preferred(k).modmask = orig_charcodes[k].modmask

OrigRowNumbers == 1..Len(orig_charcodes)

WithControl(pair) == <<pair[1], BitOr(pair[2], ControlMask)>>

\* C3 as stated: the grabs requested are, for every changed original row, the
\* pair (key code, modifier mask) of its preferred binding and that pair with
\* the Control bit set.
C3_GrabsPairsOfPreferred ==
    GrabsInstalled =>
        GrabbedPairs =
            UNION {{<<Preferred(k).code, Preferred(k).modmask>>,
                    WithControl(<<Preferred(k).code, Preferred(k).modmask>>)} :
                   k \in {r \in OrigRowNumbers : Changed(r)}}

\* C3 amended: the grabs requested are, for every changed original row, the
\* pair (key code, modifier mask) of that original row and that pair with the
\* Control bit set: two requests for each changed row and none for the others.
C3_GrabsPairsOfOriginalRow ==
    GrabsInstalled =>
        /\ GrabbedPairs =
               UNION {{<<orig_charcodes[k].code, orig_charcodes[k].modmask>>,
                       WithControl(<<orig_charcodes[k].code,
                                     orig_charcodes[k].modmask>>)} :
                      k \in {r \in OrigRowNumbers : Changed(r)}}
        /\ Len(grabs) = 2 * Cardinality({r \in OrigRowNumbers : Changed(r)})

\* A changed row whose preferred binding is on another key: its own pair was
\* grabbed and the pair of the preferred binding was not.
C3_Witness ==
    /\ GrabsInstalled
    /\ \E k \in OrigRowNumbers :
           /\ Changed(k)
           /\ Preferred(k).code # orig_charcodes[k].code
           /\ <<orig_charcodes[k].code, orig_charcodes[k].modmask>> \in GrabbedPairs
           /\ <<Preferred(k).code, Preferred(k).modmask>> \notin GrabbedPairs

\* C5 as stated: the pair of an unchanged original row is never among the
\* requested grabs, whatever the other rows are.
C5_UnchangedPairNeverGrabbed ==
    GrabsInstalled =>
        \A k \in OrigRowNumbers :
            Unchanged(k) =>
                <<orig_charcodes[k].code, orig_charcodes[k].modmask>> \notin GrabbedPairs

\* C5 amended: the pair of an unchanged original row is among the requested
\* grabs only when a changed original row has the same key code and a modifier
\* mask that equals the row's mask as it is or once the Control bit is set.
C5_UnchangedPairGrabbedOnlyForChangedRow ==
    GrabsInstalled =>
        \A k \in OrigRowNumbers :
            (/\ Unchanged(k)
             /\ <<orig_charcodes[k].code, orig_charcodes[k].modmask>> \in GrabbedPairs)
            => \E r \in OrigRowNumbers :
                   /\ Changed(r)
                   /\ orig_charcodes[r].code = orig_charcodes[k].code
                   /\ \/ orig_charcodes[r].modmask = orig_charcodes[k].modmask
                      \/ BitOr(orig_charcodes[r].modmask, ControlMask)
                             = orig_charcodes[k].modmask

\* An unchanged row stays ungrabbed while another row of the table is grabbed.
C5_Witness ==
    /\ GrabsInstalled
    /\ Len(grabs) > 0
    /\ \E k \in OrigRowNumbers :
           /\ Unchanged(k)
           /\ <<orig_charcodes[k].code, orig_charcodes[k].modmask>> \notin GrabbedPairs

\* C9: once the grabs are installed, every requested pair (code, mask) comes
\* with a request for (code, mask | Control).
C9_ControlChordGrabbed ==
    GrabsInstalled =>
        \A k \in 1..Len(grabs) :
            WithControl(<<grabs[k].keycode, grabs[k].modifiers>>) \in GrabbedPairs

\* A pair without the Control bit was grabbed, and so was its Control chord.
C9_Witness ==
    /\ GrabsInstalled
    /\ \E k \in 1..Len(grabs) :
           /\ BitAnd(grabs[k].modifiers, ControlMask) = 0
           /\ <<grabs[k].keycode, grabs[k].modifiers + ControlMask>> \in GrabbedPairs

(***************************************************************************)
(* Errors of the grab requests: lines 162-194 and 325-330.                 *)
(***************************************************************************)
MaxErrOrigRows == 2
MaxErrNewRows  == 1

ErrOrigRows ==
    [key : {97, 233}, code : ModelCodes, symbol : {1}, group : {0}, modmask : {0}]

ErrNewRows ==
    [key : {97}, code : {18}, symbol : {1}, group : {0}, modmask : {ShiftMask}]

\* The handlers that can be set when the command starts: the default one of
\* Xlib, which exits, or one of the caller's, which returns.
PreviousHandlers == {"_XDefaultError", "custom_handler"}

\* The error codes a refused XGrabKey is answered with.
ErrorCodes == {"BadAccess", "BadValue"}

\* The (key code, modifier mask) pairs the server may refuse.
RefusablePairs == {<<18, 0>>, <<18, ControlMask>>, <<52, 0>>}

InitErr ==
    /\ pc = "index"
    /\ charcodes \in TablesUpTo(ErrNewRows, MaxErrNewRows)
    /\ orig_charcodes \in TablesUpTo(ErrOrigRows, MaxErrOrigRows)
    /\ InitRest
    /\ error_handler \in PreviousHandlers
    /\ faults \in UNION {[pairs -> ErrorCodes] : pairs \in SUBSET RefusablePairs}

NextErr == IndexStep \/ IndexDone \/ GrabStep \/ XError \/ GrabDone

SpecErr == InitErr /\ [][NextErr]_vars

\* Every XGrabKey request of lines 164-192, whatever the server answers.
RECURSIVE RequestsUpTo(_)
RequestsUpTo(k) ==
    IF k = 0 THEN <<>>
    ELSE RequestsUpTo(k - 1) \o GrabRequests(orig_charcodes[k], map_by_char, charcodes)

\* A BadAccess was logged and ignored, every other error was passed to the
\* handler of before.
ErrorsIsolated ==
    \A k \in 1..Len(handled) :
        IF handled[k].error_code = "BadAccess"
        THEN handled[k].by = "ignore_already_grabbed" /\ handled[k].logged
        ELSE handled[k].by \in PreviousHandlers /\ ~handled[k].logged

\* The command only ends on an error that is not a BadAccess, and the event
\* loop starts with every grab requested and every error handled.
GrabsContinue ==
    /\ pc = "exited" => /\ handled # <<>>
                        /\ handled[Len(handled)].error_code # "BadAccess"
                        /\ handled[Len(handled)].by = "_XDefaultError"
    /\ pc = "loop" => /\ grabs = RequestsUpTo(Len(orig_charcodes))
                      /\ errors = <<>>
                      /\ Len(handled) = Len(ErrorsOf(grabs))

\* C19: a BadAccess on any of the grabs is logged and stops neither the other
\* grab requests nor the start of the event loop, any other error is passed to
\* the handler that was set before, and when the event loop starts the handler
\* that was set before the grabs is set again.
C19_GrabConflictsIsolated ==
    /\ [](ErrorsIsolated /\ GrabsContinue)
    /\ \A h \in PreviousHandlers :
           [](pc = "index" /\ error_handler = h
                  => [](/\ handled # <<>> /\ handled[Len(handled)].error_code # "BadAccess"
                            => handled[Len(handled)].by = h
                        /\ pc = "loop" => error_handler = h))

\* The event loop was started after four grab requests, the first refused with
\* BadAccess and a later one with another error.
C19_Witness ==
    /\ pc = "loop"
    /\ Len(grabs) = 4
    /\ Fault(grabs[1].keycode, grabs[1].modifiers) = "BadAccess"
    /\ \E k \in 1..Len(handled) : handled[k].error_code = "BadAccess"
    /\ \E k \in 1..Len(handled) : handled[k].error_code = "BadValue"
    /\ error_handler = "custom_handler"

(***************************************************************************)
(* The event translation loop: lines 196-279.                              *)
(***************************************************************************)
MaxLoopOrigRows == 2
MaxLoopNewRows  == 1

LoopOrigRows ==
    [key : {97, 233}, code : {18}, symbol : {1}, group : {0},
     modmask : {0, ShiftMask, Mod5Mask}]

LoopNewRows ==
    [key : {233}, code : ModelCodes, symbol : {1}, group : {0},
     modmask : {0, ShiftMask, Mod5Mask, ControlMask}]

\* Key events as the server reports them for a grab on the root window.
KeyEvents ==
    [type : {KeyPress, KeyRelease}, keycode : ModelCodes,
     state : {0, ShiftMask, Mod5Mask, ControlMask, ShiftMask + ControlMask,
              Mod5Mask + ControlMask},
     send_event : BOOLEAN, time : {1}, window : {"root"}]

\* An event of another type (MappingNotify).
OtherEvent ==
    [type |-> 34, keycode |-> 0, state |-> 0, send_event |-> FALSE, time |-> 0,
     window |-> "root"]

Events == KeyEvents \cup {OtherEvent}

\* The windows xdo_get_focused_window can report.
Windows == {"w1", "w2"}

\* XKeysymToKeycode(dpy, XK_Shift_L) and XKeysymToKeycode(dpy, XK_ISO_Level3_Shift).
ShiftKeycode  == 50
Level3Keycode == 108

\* Lines 224-234 and 276: the scan of the original table from row k on. It ends
\* at the first row that matches the event and has a preferred binding (row),
\* printing "unknown key" for every matching row without one on the way.
\* Every matching row reads map_by_char[chr.key] (subscripts); the scan is
\* over, with nothing defined any more, at a read outside the array.
RECURSIVE ScanFrom(_, _, _, _, _)
ScanFrom(k, key, orig, m, printed) ==
    IF k > Len(orig)
    THEN [row |-> 0, unknown |-> printed, subscripts |-> {}, undefined |-> FALSE]
    ELSE LET chr == orig[k]
             relevant_modmask == BitClear(key.state, PRESERVED_MODS)
         IN  IF chr.code # key.keycode THEN ScanFrom(k + 1, key, orig, m, printed)
             ELSE IF relevant_modmask # chr.modmask
                  THEN ScanFrom(k + 1, key, orig, m, printed)
             ELSE IF ~InArray(chr.key)
                  THEN [row |-> 0, unknown |-> printed, subscripts |-> {chr.key},
                        undefined |-> TRUE]
             ELSE IF m[chr.key] = NULL
                  THEN LET rest == ScanFrom(k + 1, key, orig, m,
                                            Append(printed, chr.key))
                       IN  [rest EXCEPT !.subscripts = @ \cup {chr.key}]
             ELSE [row |-> k, unknown |-> printed, subscripts |-> {chr.key},
                   undefined |-> FALSE]

\* One XSendEvent(dpy, w, True, event_mask, &event), issued at call site `site`.
SendEvent(site, w, event_mask, event) ==
    [site |-> site, dest |-> w, propagate |-> TRUE, event_mask |-> event_mask,
     event |-> event]

\* Mutant of ShiftDown: pressed is not negated.
ShiftDownOfPressed(modmask, bit, pressed) ==
    BitXor(BitAnd(modmask, bit), IF pressed THEN 1 ELSE 0) # 0

\* Lines 254 and 264: (map->modmask & bit) ^ !pressed, as a C truth value.
ShiftDown(modmask, bit, pressed) ==
    BitXor(BitAnd(modmask, bit), IF pressed THEN 0 ELSE 1) # 0

\* Lines 255-260 and 265-270: the modifier event, built in the copy `shift`.
ModifierEvent(site, key, w, shift_down, keycode) ==
    SendEvent(site, w, IF shift_down THEN KeyPressMask ELSE KeyReleaseMask,
              [key EXCEPT !.type = IF shift_down THEN KeyPress ELSE KeyRelease,
                          !.state = 0,
                          !.keycode = keycode])

\* Lines 252-261.
ShiftEvents(key, map, pressed, w) ==
    IF BitAnd(key.state, ShiftMask) # BitAnd(map.modmask, ShiftMask)
    THEN <<ModifierEvent("shift", key, w,
                         ShiftDown(map.modmask, ShiftMask, pressed), ShiftKeycode)>>
    ELSE <<>>

\* Lines 263-271.
Level3Events(key, map, pressed, w) ==
    IF BitAnd(key.state, Level3Bit) # BitAnd(map.modmask, Level3Bit)
    THEN <<ModifierEvent("level3", key, w,
                         ShiftDown(map.modmask, Mod5Mask, pressed), Level3Keycode)>>
    ELSE <<>>

\* Mutant of PrimaryState: the Control bit of the observed event is dropped.
PrimaryStateOfTargetOnly(state, modmask) == modmask

\* Line 274: the modifier state of the primary event.
PrimaryState(state, modmask) == BitOr(modmask, BitAnd(state, PRESERVED_MODS))

\* Lines 273-275.
PrimaryEvents(key, map, pressed, w) ==
    <<SendEvent("primary", w, IF pressed THEN KeyPressMask ELSE KeyReleaseMask,
                [key EXCEPT !.keycode = map.code,
                            !.state = PrimaryState(key.state, map.modmask)])>>

\* Mutant of Translate: the primary event is sent before the modifier events.
TranslatePrimaryFirst(key, map, w) ==
    LET pressed == key.type = KeyPress
        focused == [key EXCEPT !.window = w]
    IN  PrimaryEvents(focused, map, pressed, w)
            \o ShiftEvents(focused, map, pressed, w)
            \o Level3Events(focused, map, pressed, w)

\* Lines 248-275: the XSendEvent requests for an event matched to a row whose
\* preferred binding is map, with w the focused window.
Translate(key, map, w) ==
    LET pressed == key.type = KeyPress
        focused == [key EXCEPT !.window = w]
    IN  ShiftEvents(focused, map, pressed, w)
            \o Level3Events(focused, map, pressed, w)
            \o PrimaryEvents(focused, map, pressed, w)

\* Mutant of IgnoreOwnEvent: events sent by XSendEvent are translated too.
IgnoreNothing(key) == FALSE

\* Line 221.
IgnoreOwnEvent(key) == key.send_event

\* Line 218: one XAllowEvents(dpy, SyncKeyboard, time).
AllowEvents(time) == [site |-> "allow", event_mode |-> "SyncKeyboard", time |-> time]

\* Mutant of IterationRequests: the keyboard is re-armed after the translation,
\* and only when something was sent.
IterationRequestsAllowLast(key, sends) ==
    IF sends = <<>> THEN <<>> ELSE sends \o <<AllowEvents(key.time)>>

\* Lines 218-275: the requests of one iteration on a key event, sends being
\* the XSendEvent requests of lines 252-275 (none when the event is dropped).
IterationRequests(key, sends) == <<AllowEvents(key.time)>> \o sends

\* The timestamps of the XAllowEvents requests among the requests.
AllowTimes(reqs) ==
    LET allows == SelectSeq(reqs, LAMBDA r : r.site = "allow")
    IN  [k \in 1..Len(allows) |-> allows[k].time]

\* The entries of `order` for the requests of one iteration on the event key.
OrderOf(reqs, key, it) ==
    [k \in 1..Len(reqs) |->
        [it |-> it, site |-> reqs[k].site, type |-> reqs[k].event.type,
         observed |-> [type |-> key.type, keycode |-> key.keycode,
                       state |-> key.state]]]

\* The requests of the iteration before are kept, those before it are dropped.
Aged(log) ==
    LET cur == SelectSeq(log, LAMBDA e : e.it = 1)
    IN  [k \in 1..Len(cur) |-> [cur[k] EXCEPT !.it = 0]]

\* Lines 202-206: an event that is no key event.
SkipEvent ==
    /\ pc = "loop"
    /\ \E ev \in Events :
           /\ ev.type # KeyPress /\ ev.type # KeyRelease
           /\ xevent' = ev
    /\ pc' = "handled"
    /\ UNCHANGED <<matched, focuswin, sent, allowed, requests, unknown, order>>
    /\ UNCHANGED <<charcodes, orig_charcodes, i, map_by_char, grabs, subscripts>>
    /\ UNCHANGED lifeVars
    /\ UNCHANGED errVars

\* Lines 202-278: one iteration of the loop on a key event.
HandleKeyEvent ==
    /\ pc = "loop"
    /\ \E ev \in Events, w \in Windows :
           /\ ev.type = KeyPress \/ ev.type = KeyRelease
           /\ xevent' = ev
           /\ IF IgnoreOwnEvent(ev)
              THEN /\ matched' = 0
                   /\ focuswin' = 0
                   /\ sent' = <<>>
                   /\ unknown' = <<>>
                   /\ subscripts' = {}
                   /\ pc' = "handled"
              ELSE LET scan == ScanFrom(1, ev, orig_charcodes, map_by_char, <<>>)
                   IN  /\ matched' = scan.row
                       /\ unknown' = scan.unknown
                       /\ subscripts' = scan.subscripts
                       /\ pc' = IF scan.undefined THEN "undefined" ELSE "handled"
                       /\ IF scan.row = 0
                          THEN /\ focuswin' = 0
                               /\ sent' = <<>>
                          ELSE /\ focuswin' = w
                               /\ sent' = Translate(ev,
                                      charcodes[map_by_char[orig_charcodes[scan.row].key]],
                                      w)
           /\ requests' = IterationRequests(ev, sent')
           /\ allowed' = AllowTimes(requests')
           /\ order' = order \o OrderOf(sent', ev, 1)
    /\ UNCHANGED <<charcodes, orig_charcodes, i, map_by_char, grabs>>
    /\ UNCHANGED lifeVars
    /\ UNCHANGED errVars

\* Line 196: back at the head of the loop; the locals of the iteration are gone.
LoopBack ==
    /\ pc = "handled"
    /\ pc' = "loop"
    /\ xevent' = NoEvent
    /\ matched' = 0
    /\ focuswin' = 0
    /\ sent' = <<>>
    /\ allowed' = <<>>
    /\ requests' = <<>>
    /\ unknown' = <<>>
    /\ order' = Aged(order)
    /\ subscripts' = {}
    /\ UNCHANGED <<charcodes, orig_charcodes, i, map_by_char, grabs>>
    /\ UNCHANGED lifeVars
    /\ UNCHANGED errVars

InitLoop ==
    /\ pc = "index"
    /\ charcodes \in TablesUpTo(LoopNewRows, MaxLoopNewRows)
    /\ orig_charcodes \in TablesUpTo(LoopOrigRows, MaxLoopOrigRows)
    /\ InitRest
    /\ QuietServer

NextLoop ==
    \/ IndexStep \/ IndexDone \/ GrabStep \/ GrabDone
    \/ SkipEvent \/ HandleKeyEvent \/ LoopBack

SpecLoop == InitLoop /\ [][NextLoop]_vars

\* An iteration of the loop has run to its end on the event xevent.
Handled == pc = "handled"

IsKeyEvent(ev) == ev.type = KeyPress \/ ev.type = KeyRelease

\* Original row k is the row {code 0x12, Shift} whose character has the
\* preferred new-layout binding {code 0x34, no modifier}.
ScenarioRow(k) ==
    /\ orig_charcodes[k].code = 18
    /\ orig_charcodes[k].modmask = ShiftMask
    /\ HasPreferred(k)
    /\ Preferred(k).code = 52
    /\ Preferred(k).modmask = 0

\* The requests sent are a Shift release and then a press of (code, state),
\* both to the same window.
ShiftReleaseThenPress(code, state) ==
    /\ Len(sent) = 2
    /\ sent[1].dest \in Windows
    /\ sent[1].event.type = KeyRelease
    /\ sent[1].event.keycode = ShiftKeycode
    /\ sent[1].event_mask = KeyReleaseMask
    /\ sent[2].dest = sent[1].dest
    /\ sent[2].event.type = KeyPress
    /\ sent[2].event.keycode = code
    /\ sent[2].event.state = state
    /\ sent[2].event_mask = KeyPressMask

\* C2 as stated: with the original row {0x12, Shift} and the preferred binding
\* {0x34, 0}, an observed press of key 0x34 without modifiers is answered by a
\* Shift release and then a press of key 0x12 with Shift.
C2_PressOfNewKeyYieldsOriginalKey ==
    (/\ Handled
     /\ \E k \in OrigRowNumbers : ScenarioRow(k)
     /\ xevent.type = KeyPress
     /\ xevent.keycode = 52
     /\ xevent.state = 0
     /\ ~xevent.send_event)
    => ShiftReleaseThenPress(18, ShiftMask)

\* C2 amended: with the original row {0x12, Shift} and the preferred binding
\* {0x34, 0}, an observed press of key 0x12 with Shift that is matched to that
\* row is answered by a Shift release to the focused window and then a press of
\* key 0x34 without modifiers to the same window.
C2_PressOfOriginalKeyYieldsPreferredKey ==
    (/\ Handled
     /\ matched # 0
     /\ ScenarioRow(matched)
     /\ xevent.type = KeyPress
     /\ xevent.state = ShiftMask)
    => /\ ShiftReleaseThenPress(52, 0)
       /\ sent[1].dest = focuswin

C2_Witness ==
    /\ Handled
    /\ matched # 0
    /\ ScenarioRow(matched)
    /\ xevent.type = KeyPress
    /\ xevent.keycode = 18
    /\ xevent.state = ShiftMask
    /\ ~xevent.send_event
    /\ Len(sent) = 2

\* C6: a translated event whose state has the Control bit yields a primary
\* event whose state has the Control bit, whatever the mask of the target
\* binding; and the row an event is matched to has the key code of the event
\* and, as its mask, the state of the event without the Control bit.
C6_ControlPassedThrough ==
    (Handled /\ matched # 0) =>
        /\ orig_charcodes[matched].code = xevent.keycode
        /\ orig_charcodes[matched].modmask = BitClear(xevent.state, ControlMask)
        /\ Len(sent) > 0
        /\ sent[Len(sent)].site = "primary"
        /\ BitAnd(xevent.state, ControlMask) # 0
               => BitAnd(sent[Len(sent)].event.state, ControlMask) = ControlMask

\* An event with Control is translated to a binding whose mask has no Control.
C6_Witness ==
    /\ Handled
    /\ matched # 0
    /\ BitAnd(xevent.state, ControlMask) # 0
    /\ BitAnd(Preferred(matched).modmask, ControlMask) = 0
    /\ BitAnd(sent[Len(sent)].event.state, ControlMask) = ControlMask

\* The call sites of a sequence of requests.
Sites(reqs) == [k \in 1..Len(reqs) |-> reqs[k].site]

\* The orders in which one iteration may call XSendEvent.
IterationOrders ==
    {<<>>, <<"primary">>, <<"shift", "primary">>, <<"level3", "primary">>,
     <<"shift", "level3", "primary">>}

\* C7: the requests of one iteration are the Shift event, then the level-3
\* event, then the one primary event; and the requests of the iteration before
\* all come before those of the current one.
C7_ModifiersBeforePrimary ==
    /\ Sites(sent) \in IterationOrders
    /\ Sites(SelectSeq(order, LAMBDA e : e.it = 0)) \in IterationOrders
    /\ Sites(SelectSeq(order, LAMBDA e : e.it = 1)) = Sites(sent)
    /\ order = SelectSeq(order, LAMBDA e : e.it = 0)
                   \o SelectSeq(order, LAMBDA e : e.it = 1)
    /\ (Handled /\ matched # 0) => Len(sent) > 0

\* Both modifier events and the primary event were sent, after the requests
\* of the iteration before.
C7_Witness ==
    /\ Handled
    /\ Sites(sent) = <<"shift", "level3", "primary">>
    /\ Len(order) > 3
    /\ order[1].it = 0

\* C8: a key event marked send_event is dropped before the matching step: no
\* row is matched, no diagnostic is printed and no event is sent.
C8_OwnEventsDropped ==
    (Handled /\ IsKeyEvent(xevent) /\ xevent.send_event) =>
        /\ matched = 0
        /\ unknown = <<>>
        /\ sent = <<>>
        /\ \A k \in 1..Len(order) : order[k].it = 0

\* A dropped event that matches an original row with a preferred binding.
C8_Witness ==
    /\ Handled
    /\ IsKeyEvent(xevent)
    /\ xevent.send_event
    /\ sent = <<>>
    /\ \E k \in OrigRowNumbers :
           /\ orig_charcodes[k].code = xevent.keycode
           /\ orig_charcodes[k].modmask = BitClear(xevent.state, ControlMask)
           /\ HasPreferred(k)

\* The level-3 requests of the iteration.
Level3Sent == SelectSeq(sent, LAMBDA r : r.site = "level3")

\* C13: when bit 0x80 of the state of a translated event differs from bit 0x80
\* of the mask of the target binding, one level-3-shift event is sent, and it
\* is a key press exactly when (the target has Mod5) differs from (the
\* observed event is a release); so a release whose target has Mod5 sends a
\* level-3-shift release.
C13_Level3DirectionAsShift ==
    (/\ Handled
     /\ matched # 0
     /\ BitAnd(xevent.state, Level3Bit) # BitAnd(Preferred(matched).modmask, Level3Bit))
    => /\ Len(Level3Sent) = 1
       /\ Level3Sent[1].event.keycode = Level3Keycode
       /\ (Level3Sent[1].event.type = KeyPress)
              <=> ((BitAnd(Preferred(matched).modmask, Mod5Mask) # 0)
                       # (xevent.type = KeyRelease))
       /\ Level3Sent[1].event.type \in {KeyPress, KeyRelease}

\* The original rows that match the event: the key code of the event and, as
\* mask, its state without the preserved bits.
MatchingRows(ev) ==
    {k \in OrigRowNumbers :
        /\ orig_charcodes[k].code = ev.keycode
        /\ orig_charcodes[k].modmask = BitClear(ev.state, PRESERVED_MODS)}

\* The first of them.
FirstMatch(ev) == CHOOSE k \in MatchingRows(ev) : \A r \in MatchingRows(ev) : k <= r

\* C14: when the first original row that matches an observed event has no
\* preferred binding, its character is printed as unknown, no event is sent
\* for the observed event and no row is translated.
C14_UnmappedCharacterDropsEvent ==
    (/\ Handled
     /\ IsKeyEvent(xevent)
     /\ ~xevent.send_event
     /\ MatchingRows(xevent) # {}
     /\ ~HasPreferred(FirstMatch(xevent)))
    => /\ unknown # <<>>
       /\ unknown[1] = orig_charcodes[FirstMatch(xevent)].key
       /\ sent = <<>>
       /\ matched = 0

\* The types of the events sent at a call site in the iteration before
\* (it = 0) or in the current one (it = 1).
TypesSent(site, it) ==
    LET es == SelectSeq(order, LAMBDA e : e.it = it /\ e.site = site)
    IN  [k \in 1..Len(es) |-> es[k].type]

\* The iteration before translated a press of the key and state whose release
\* the current iteration has translated.
PressThenRelease ==
    /\ Handled
    /\ matched # 0
    /\ xevent.type = KeyRelease
    /\ \E k \in 1..Len(order) :
           /\ order[k].it = 0
           /\ order[k].observed = [type |-> KeyPress, keycode |-> xevent.keycode,
                                   state |-> xevent.state]

\* The modifier events of a call site in the two iterations cancel out: none
\* in both, or a press in one and a release in the other.
Balanced(site) ==
    \/ TypesSent(site, 0) = <<>> /\ TypesSent(site, 1) = <<>>
    \/ TypesSent(site, 0) = <<KeyPress>> /\ TypesSent(site, 1) = <<KeyRelease>>
    \/ TypesSent(site, 0) = <<KeyRelease>> /\ TypesSent(site, 1) = <<KeyPress>>

\* C17: after the press and then the release of one key with one modifier
\* state were translated, the synthesized Shift events of the two iterations
\* are balanced and so are the synthesized level-3-shift events.
C17_BalancedModifierSynthesis ==
    PressThenRelease => Balanced("shift") /\ Balanced("level3")

\* C18: at the end of an iteration on a key event, sent by the command
\* itself or not, matched or not, mapped or not, exactly one XAllowEvents was
\* requested, for the timestamp of the event, and it is the first request of
\* the iteration, before every XSendEvent; an iteration on another event
\* requested none; and at the head of the loop no request is outstanding.
C18_KeyboardAlwaysRearmed ==
    /\ (Handled /\ IsKeyEvent(xevent)) =>
           /\ allowed = <<xevent.time>>
           /\ requests # <<>>
           /\ requests[1] = AllowEvents(xevent.time)
           /\ Tail(requests) = sent
    /\ (Handled /\ ~IsKeyEvent(xevent)) => (allowed = <<>> /\ requests = <<>>)
    /\ pc = "loop" => (allowed = <<>> /\ requests = <<>>)

\* A translated event: the keyboard was re-armed, then a modifier event and
\* the primary event were sent.
C18_Witness ==
    /\ Handled
    /\ IsKeyEvent(xevent)
    /\ matched # 0
    /\ Len(requests) = 3
    /\ requests[1].site = "allow"
    /\ requests[3].site = "primary"

(***************************************************************************)
(* The characters of the rows: the classification of line 143 and the      *)
(* subscripts of map_by_char on lines 146-156, 166 and 230.                *)
(***************************************************************************)
MaxCharOrigRows == 1
MaxCharNewRows  == 2

\* Rows with a C0 control (tab), a C1 control (U+0085), a letter and a
\* character outside the basic plane (U+1F600).
CharNewRows ==
    [key : {9, 97, 133} \cup BeyondChars, code : {18}, symbol : {1}, group : {0},
     modmask : {0, ShiftMask}]

CharOrigRows ==
    [key : {97, 133} \cup BeyondChars, code : {18}, symbol : {1}, group : {0},
     modmask : {0}]

InitChars ==
    /\ pc = "index"
    /\ charcodes \in TablesUpTo(CharNewRows, MaxCharNewRows)
    /\ orig_charcodes \in TablesUpTo(CharOrigRows, MaxCharOrigRows)
    /\ InitRest
    /\ QuietServer

NextChars ==
    \/ IndexStep \/ IndexDone \/ GrabStep \/ GrabDone
    \/ SkipEvent \/ HandleKeyEvent \/ LoopBack

SpecChars == InitChars /\ [][NextChars]_vars

\* The control characters: the C0 and C1 controls and DEL.
IsControlCharacter(c) == c \in 0..31 \/ c \in 127..159

\* C11: once the index is built, no entry of it refers to a row whose
\* character is a control character, also when that row is the only row of
\* the table with that character.
C11_ControlCharactersNotIndexed ==
    IndexBuilt =>
        \A c \in DOMAIN map_by_char :
            map_by_char[c] # NULL
                => ~IsControlCharacter(charcodes[map_by_char[c]].key)

\* C20: every read and write of map_by_char, in the loop that builds it, in
\* the loop that requests the grabs and in the event loop, uses a subscript
\* within the allocated 0..65535.
C20_SubscriptsWithinArray ==
    /\ subscripts \subseteq 0..(MapSize - 1)
    /\ pc # "undefined"

(***************************************************************************)
(* The life of the process: options, layout capture, exit hook and signal  *)
(* handlers, the external tools and termination (lines 32-131, 314-322).   *)
(* procs[p] is process p; process 1 is the command, the others are forked. *)
(***************************************************************************)
MaxProcs == 5

\* The signals delivered during one run of the command.
MaxSignals == 1

\* What XkbRF_GetNamesProp stores in orig_vardefs.layout when the server has a
\* layout: a name that is not the "us" of line 111.
Layouts == {"de"}

\* The ways the command is invoked. An invocation with --window only stores
\* window_arg (line 59), which nothing reads: it runs as the plain one does.
Invocations == {"plain", "--help", "--bogus"}

\* The tools execlp finds on the PATH: both, or one of them missing.
Paths == {{"setxkbmap", "xmodmap"}, {"setxkbmap"}, {"xmodmap"}}

Signals == {"SIGTERM", "SIGINT"}

\* The fork sites with their execlp, their waitpid and what follows the wait.
ForkSites == {"fork_nodeadkeys", "fork_layout", "fork_xmodmap", "fork_restore"}

ExecOf(site) ==
    CASE site = "fork_nodeadkeys" -> "exec_nodeadkeys"
      [] site = "fork_layout"     -> "exec_layout"
      [] site = "fork_xmodmap"    -> "exec_xmodmap"
      [] site = "fork_restore"    -> "exec_restore"

WaitOf(site) ==
    CASE site \in {"fork_nodeadkeys", "exec_nodeadkeys"} -> "wait_nodeadkeys"
      [] site \in {"fork_layout", "exec_layout"}         -> "wait_layout"
      [] site \in {"fork_xmodmap", "exec_xmodmap"}       -> "wait_xmodmap"
      [] site \in {"fork_restore", "exec_restore"}       -> "wait_restore"

AfterWait(site) ==
    CASE site = "wait_nodeadkeys" -> "refresh_original"
      [] site = "wait_layout"     -> "fork_xmodmap"
      [] site = "wait_xmodmap"    -> "refresh_new"
      [] site = "wait_restore"    -> "exit"

ExecSites == {ExecOf(f) : f \in ForkSites}
WaitSites == {WaitOf(f) : f \in ForkSites}

\* Lines 92, 111, 115-121 and 319: execlp(file, arg0, arg1, ..., NULL).
ExecFile(site) == IF site = "exec_xmodmap" THEN "xmodmap" ELSE "setxkbmap"

\* The argv the tool is started with: argv[0] is the first argument after the
\* file, the tool's arguments are the rest.
ExecArgv(site, layout) ==
    CASE site = "exec_nodeadkeys" -> <<"setxkbmap", "-variant", "nodeadkeys">>
      [] site = "exec_layout"     -> <<"-layout", "us", "-variant", "basic">>
      [] site = "exec_xmodmap"    ->
             <<"xmodmap", "-e", "remove mod1 = Alt_R",
               "-e", "keysym Alt_R = ISO_Level3_Shift",
               "-e", "add mod5 = ISO_Level3_Shift">>
      [] site = "exec_restore"    -> <<"-layout", layout>>

\* The command as main() enters cmd_fakemap: nothing captured, no exit hook,
\* the default disposition of both signals.
NewProcess(invocation, path) ==
    [pc          |-> "getopt",
     invocation  |-> invocation,
     path        |-> path,          \* the tools execlp finds on the PATH
     orig_layout |-> "NULL",        \* the static orig_layout (line 27)
     hooks       |-> <<>>,          \* functions registered with atexit, in order
     handler     |-> [sig \in Signals |-> "SIG_DFL"],
     child       |-> 0,             \* the local child: a pid, 0 (in the child), -1
     parent      |-> 0,
     forkedAt    |-> "main",        \* the fork that made the process
     refreshes   |-> 0,             \* calls of xdo_new_with_opened_display
     grabbed     |-> FALSE,         \* the keys were grabbed (lines 160-194)
     signals     |-> 0,             \* signals delivered to the process
     exiting     |-> FALSE,         \* exit() was called
     pending     |-> <<>>,          \* exit hooks not yet called, next first
     status      |-> -1,            \* the exit status, once known
     ended       |-> "no"]          \* "exit", "signal", "tool": how it ended

Pids == 1..Len(procs)

Running(p) == procs[p].pc \notin {"terminated", "tool"}

RECURSIVE Delivered(_)
Delivered(n) == IF n = 0 THEN 0 ELSE procs[n].signals + Delivered(n - 1)

\* A signal can be delivered to the running process p.
Signalled(p) == Running(p) /\ Delivered(Len(procs)) < MaxSignals

RECURSIVE Reverse(_)
Reverse(sq) == IF sq = <<>> THEN <<>> ELSE Append(Reverse(Tail(sq)), Head(sq))

\* exit(status): the hooks registered with atexit are called in reverse order.
CallExit(proc, status) ==
    [proc EXCEPT !.pc = "exit", !.exiting = TRUE, !.pending = Reverse(proc.hooks),
                 !.status = status]

LifeUnchanged ==
    /\ UNCHANGED mapVars
    /\ UNCHANGED loopVars
    /\ UNCHANGED errVars

\* Mutant of ParseOptions: an unrecognized option is skipped.
ParseOptionsSkipUnknown(p) ==
    /\ procs[p].pc = "getopt"
    /\ procs' = [procs EXCEPT ![p] =
           CASE procs[p].invocation = "--help"  ->
                    [@ EXCEPT !.pc = "return", !.status = 0]
             [] OTHER -> [@ EXCEPT !.pc = "capture"]]
    /\ UNCHANGED toolCalls
    /\ LifeUnchanged

\* Lines 55-72.
ParseOptions(p) ==
    /\ procs[p].pc = "getopt"
    /\ procs' = [procs EXCEPT ![p] =
           CASE procs[p].invocation = "--help"  ->
                    [@ EXCEPT !.pc = "return", !.status = 0]
             [] procs[p].invocation = "--bogus" ->
                    [@ EXCEPT !.pc = "return", !.status = 1]
             [] OTHER -> [@ EXCEPT !.pc = "capture"]]
    /\ UNCHANGED toolCalls
    /\ LifeUnchanged

\* cmd_fakemap returned (lines 64 and 68): main ends the process with exit.
ReturnToMain(p) ==
    /\ procs[p].pc = "return"
    /\ procs' = [procs EXCEPT ![p] = CallExit(@, @.status)]
    /\ UNCHANGED toolCalls
    /\ LifeUnchanged

\* Lines 73-84.
CaptureLayout(p) ==
    /\ procs[p].pc = "capture"
    /\ \E layout \in Layouts \cup {"NULL"} :
           procs' = [procs EXCEPT ![p] =
               [@ EXCEPT !.pc = "atexit", !.orig_layout = layout]]
    /\ UNCHANGED toolCalls
    /\ LifeUnchanged

\* Line 85.
RegisterExitHook(p) ==
    /\ procs[p].pc = "atexit"
    /\ procs' = [procs EXCEPT ![p] =
           [@ EXCEPT !.pc = "signal_term", !.hooks = Append(@, "restore_layout")]]
    /\ UNCHANGED toolCalls
    /\ LifeUnchanged

\* Line 86.
HandleSigterm(p) ==
    /\ procs[p].pc = "signal_term"
    /\ procs' = [procs EXCEPT ![p] =
           [@ EXCEPT !.pc = "signal_int", !.handler["SIGTERM"] = "exit_success"]]
    /\ UNCHANGED toolCalls
    /\ LifeUnchanged

\* Line 87.
HandleSigint(p) ==
    /\ procs[p].pc = "signal_int"
    /\ procs' = [procs EXCEPT ![p] =
           [@ EXCEPT !.pc = "fork_nodeadkeys", !.handler["SIGINT"] = "exit_success"]]
    /\ UNCHANGED toolCalls
    /\ LifeUnchanged

\* Lines 91, 110, 114 and 318: fork() makes a copy of the process; the parent
\* goes on to its waitpid, the child to its execlp.
Fork(p) ==
    /\ procs[p].pc \in ForkSites
    /\ Len(procs) < MaxProcs
    /\ procs' = Append(
           [procs EXCEPT ![p] =
               [@ EXCEPT !.pc = WaitOf(@), !.child = Len(procs) + 1]],
           [procs[p] EXCEPT !.pc = ExecOf(procs[p].pc), !.child = 0, !.parent = p,
                            !.forkedAt = procs[p].pc, !.signals = 0])
    /\ UNCHANGED toolCalls
    /\ LifeUnchanged

\* fork() fails: it returns -1 and the if is not entered.
ForkFails(p) ==
    /\ procs[p].pc \in ForkSites
    /\ procs' = [procs EXCEPT ![p] = [@ EXCEPT !.pc = WaitOf(@), !.child = -1]]
    /\ UNCHANGED toolCalls
    /\ LifeUnchanged

\* One execlp call, as toolCalls records it.
ExecCall(p, found) ==
    [pid |-> p, parent |-> procs[p].parent, site |-> procs[p].pc,
     file |-> ExecFile(procs[p].pc),
     argv |-> ExecArgv(procs[p].pc, procs[p].orig_layout),
     found |-> found]

\* execlp finds the tool: the child is the tool from now on. The handlers and
\* exit hooks of the command are gone with its image.
Exec(p) ==
    /\ procs[p].pc \in ExecSites
    /\ ExecFile(procs[p].pc) \in procs[p].path
    /\ toolCalls' = Append(toolCalls, ExecCall(p, TRUE))
    /\ procs' = [procs EXCEPT ![p] =
           [@ EXCEPT !.pc = "tool", !.hooks = <<>>,
                     !.handler = [sig \in Signals |-> "SIG_DFL"]]]
    /\ LifeUnchanged

\* execlp does not find the tool and returns: the child runs on, after the if.
ExecFails(p) ==
    /\ procs[p].pc \in ExecSites
    /\ ExecFile(procs[p].pc) \notin procs[p].path
    /\ toolCalls' = Append(toolCalls, ExecCall(p, FALSE))
    /\ procs' = [procs EXCEPT ![p] = [@ EXCEPT !.pc = WaitOf(@)]]
    /\ LifeUnchanged

\* The external tool runs to its end.
ToolEnds(p) ==
    /\ procs[p].pc = "tool"
    /\ procs' = [procs EXCEPT ![p] =
           [@ EXCEPT !.pc = "terminated", !.ended = "tool"]]
    /\ UNCHANGED toolCalls
    /\ LifeUnchanged

\* Mutant of Wait: the parent does not wait for its child.
WaitNoHang(p) ==
    /\ procs[p].pc \in WaitSites
    /\ procs' = [procs EXCEPT ![p] = [@ EXCEPT !.pc = AfterWait(@)]]
    /\ UNCHANGED toolCalls
    /\ LifeUnchanged

\* Lines 94, 113, 123 and 321: waitpid(child, NULL, 0) returns when the child
\* has ended. With child 0 (in a child whose execlp returned) or -1 (fork
\* failed) it waits for any child: it returns once none is running.
Wait(p) ==
    /\ procs[p].pc \in WaitSites
    /\ IF procs[p].child < 1
       THEN \A q \in Pids : procs[q].parent = p => procs[q].pc = "terminated"
       ELSE procs[procs[p].child].pc = "terminated"
    /\ procs' = [procs EXCEPT ![p] = [@ EXCEPT !.pc = AfterWait(@)]]
    /\ UNCHANGED toolCalls
    /\ LifeUnchanged

\* Lines 97-106 and 127-131.
Refresh(p) ==
    /\ procs[p].pc \in {"refresh_original", "refresh_new"}
    /\ procs' = [procs EXCEPT ![p] =
           [@ EXCEPT !.pc = IF @ = "refresh_original" THEN "fork_layout"
                            ELSE "calloc",
                     !.refreshes = @ + 1]]
    /\ UNCHANGED toolCalls
    /\ LifeUnchanged

\* Lines 134-194: the index is allocated and built and the keys are grabbed.
MapKeys(p) ==
    /\ procs[p].pc = "calloc"
    /\ procs' = [procs EXCEPT ![p] = [@ EXCEPT !.pc = "loop", !.grabbed = TRUE]]
    /\ UNCHANGED toolCalls
    /\ LifeUnchanged

\* Lines 136-139: calloc fails.
AllocationFails(p) ==
    /\ procs[p].pc = "calloc"
    /\ procs' = [procs EXCEPT ![p] = CallExit(@, 1)]
    /\ UNCHANGED toolCalls
    /\ LifeUnchanged

\* exit calls the next hook: restore_layout is entered (line 314).
CallHook(p) ==
    /\ procs[p].pc = "exit"
    /\ procs[p].pending # <<>>
    /\ procs' = [procs EXCEPT ![p] =
           [@ EXCEPT !.pc = "restore_layout", !.pending = Tail(@)]]
    /\ UNCHANGED toolCalls
    /\ LifeUnchanged

\* Line 315.
RestoreLayout(p) ==
    /\ procs[p].pc = "restore_layout"
    /\ procs' = [procs EXCEPT ![p] =
           [@ EXCEPT !.pc = IF procs[p].orig_layout = "NULL" THEN "exit"
                            ELSE "fork_restore"]]
    /\ UNCHANGED toolCalls
    /\ LifeUnchanged

\* exit has called every hook: the process ends.
ExitEnds(p) ==
    /\ procs[p].pc = "exit"
    /\ procs[p].pending = <<>>
    /\ procs' = [procs EXCEPT ![p] =
           [@ EXCEPT !.pc = "terminated", !.ended = "exit"]]
    /\ UNCHANGED toolCalls
    /\ LifeUnchanged

\* A signal with the default disposition ends the process at once: no exit
\* hook is called.
Killed(p) ==
    /\ Signalled(p)
    /\ \E sig \in Signals : procs[p].handler[sig] = "SIG_DFL"
    /\ procs' = [procs EXCEPT ![p] =
           [@ EXCEPT !.pc = "terminated", !.ended = "signal", !.signals = @ + 1]]
    /\ UNCHANGED toolCalls
    /\ LifeUnchanged

\* Lines 22-25: a handled signal calls exit(0) from wherever the process is.
ExitSuccess(p) ==
    /\ Signalled(p)
    /\ ~procs[p].exiting
    /\ \E sig \in Signals : procs[p].handler[sig] = "exit_success"
    /\ procs' = [procs EXCEPT ![p] = CallExit([@ EXCEPT !.signals = @ + 1], 0)]
    /\ UNCHANGED toolCalls
    /\ LifeUnchanged

\* A handled signal while exit is running calls exit a second time, which is
\* undefined: the hook that was running is abandoned and either the hooks that
\* are left are called, or the process stops where it is.
ExitAgain(p) ==
    /\ Signalled(p)
    /\ procs[p].exiting
    /\ \E sig \in Signals : procs[p].handler[sig] = "exit_success"
    /\ \/ procs' = [procs EXCEPT ![p] =
              [@ EXCEPT !.pc = "exit", !.status = 0, !.signals = @ + 1]]
       \/ procs' = [procs EXCEPT ![p] =
              [@ EXCEPT !.pc = "terminated", !.ended = "signal",
                        !.signals = @ + 1]]
    /\ UNCHANGED toolCalls
    /\ LifeUnchanged

InitLife ==
    /\ pc = "start"
    /\ charcodes = <<>>
    /\ orig_charcodes = <<>>
    /\ i = 0
    /\ map_by_char = EmptyIndex
    /\ grabs = <<>>
    /\ xevent = NoEvent
    /\ matched = 0
    /\ focuswin = 0
    /\ sent = <<>>
    /\ allowed = <<>>
    /\ requests = <<>>
    /\ unknown = <<>>
    /\ order = <<>>
    /\ \E invocation \in Invocations, path \in Paths :
           procs = <<NewProcess(invocation, path)>>
    /\ toolCalls = <<>>
    /\ subscripts = {}
    /\ orig_error_handler = "NULL"
    /\ errors = <<>>
    /\ handled = <<>>
    /\ QuietServer

NextLife ==
    \/ \E p \in Pids : ParseOptions(p)
    \/ \E p \in Pids : ReturnToMain(p)
    \/ \E p \in Pids : CaptureLayout(p)
    \/ \E p \in Pids : RegisterExitHook(p)
    \/ \E p \in Pids : HandleSigterm(p)
    \/ \E p \in Pids : HandleSigint(p)
    \/ \E p \in Pids : Fork(p)
    \/ \E p \in Pids : ForkFails(p)
    \/ \E p \in Pids : Exec(p)
    \/ \E p \in Pids : ExecFails(p)
    \/ \E p \in Pids : ToolEnds(p)
    \/ \E p \in Pids : Wait(p)
    \/ \E p \in Pids : Refresh(p)
    \/ \E p \in Pids : MapKeys(p)
    \/ \E p \in Pids : AllocationFails(p)
    \/ \E p \in Pids : CallHook(p)
    \/ \E p \in Pids : RestoreLayout(p)
    \/ \E p \in Pids : ExitEnds(p)
    \/ \E p \in Pids : Killed(p)
    \/ \E p \in Pids : ExitSuccess(p)
    \/ \E p \in Pids : ExitAgain(p)

SpecLife == InitLife /\ [][NextLife]_vars

\* The execlp calls made for the restore_layout hook of process p.
Restorations(p) ==
    SelectSeq(toolCalls, LAMBDA c : c.site = "exec_restore" /\ c.parent = p)

\* The arguments a tool is started with: argv without argv[0].
Arguments(call) == Tail(call.argv)

\* C1: when the command (process 1) has terminated with a layout captured and
\* the exit hook registered, the restoring tool was started exactly once, with
\* the captured layout as its only argument; when it has terminated with
\* nothing captured, the tool was never started.
C1_RestoredExactlyOnce ==
    procs[1].pc = "terminated" =>
        IF procs[1].orig_layout # "NULL" /\ procs[1].hooks # <<>>
        THEN /\ Len(Restorations(1)) = 1
             /\ Restorations(1)[1].file = "setxkbmap"
             /\ Arguments(Restorations(1)[1]) = <<procs[1].orig_layout>>
        ELSE Len(Restorations(1)) = 0

\* The command has done nothing that changes the server or the process:
\* no child, no tool, no refresh, no exit hook, no signal handler, no grab.
NoSideEffect ==
    /\ Len(procs) = 1
    /\ toolCalls = <<>>
    /\ procs[1].refreshes = 0
    /\ procs[1].hooks = <<>>
    /\ \A sig \in Signals : procs[1].handler[sig] = "SIG_DFL"
    /\ ~procs[1].grabbed

\* cmd_fakemap has returned to main.
Returned == procs[1].pc = "return" \/ procs[1].exiting

\* C12: an invocation with --help returns status 0 and an invocation with an
\* unrecognized option returns a non-zero status; in both, at every moment of
\* the run, no child was forked, no tool started, no keyboard description
\* refreshed, no exit hook or signal handler registered and no key grabbed.
C12_NoSideEffectUnlessParsed ==
    /\ procs[1].invocation = "--help" =>
           /\ NoSideEffect
           /\ Returned => procs[1].status = 0
    /\ procs[1].invocation = "--bogus" =>
           /\ NoSideEffect
           /\ Returned => procs[1].status > 0

\* The command was given an unrecognized option and has run to its end.
C12_Witness ==
    /\ procs[1].invocation = "--bogus"
    /\ procs[1].pc = "terminated"
    /\ procs[1].ended = "exit"
    /\ procs[1].status = 1

\* The processes forked for a tool.
Children == {p \in Pids : procs[p].parent # 0}

\* The steps of the pipeline after a fork, and the steps of the exit hook.
PipelineSteps == {"refresh_original", "refresh_new", "calloc", "loop"} \cup ForkSites
HookSteps == {"restore_layout", "fork_restore", "wait_restore"}

\* C15: a process forked for a tool is at its execlp, is the tool, or has
\* ended, also when the execlp fails: it is at no later step of the pipeline
\* and at no step of the exit hook, and at most one process is at a step of
\* the pipeline.
C15_ChildOnlyRunsTool ==
    /\ \A p \in Children : procs[p].pc \in ExecSites \cup {"tool", "terminated"}
    /\ \A p \in Children : procs[p].pc \notin HookSteps
    /\ Cardinality({p \in Pids : procs[p].pc \in PipelineSteps}) <= 1

\* The processes the command forked at the given sites.
ForkedAt(sites) == {p \in Pids : procs[p].parent = 1 /\ procs[p].forkedAt \in sites}

MutatingSites == {"fork_nodeadkeys", "fork_layout", "fork_xmodmap"}

\* The command is in the event loop after exactly two refreshes, and no
\* process forked for a layout-mutating tool is still running then.
TwoRefreshesAfterTools ==
    /\ procs[1].pc = "loop" => procs[1].refreshes = 2
    /\ procs[1].refreshes <= 2
    /\ procs[1].refreshes = 2 =>
           \A p \in ForkedAt(MutatingSites) : procs[p].pc = "terminated"

\* C16 as stated: the command refreshes the keyboard mapping exactly twice
\* before the event loop; no layout-mutating tool is forked before the first
\* refresh, and the second refresh comes after all of them were waited for.
C16_FirstRefreshBeforeAnyTool ==
    /\ TwoRefreshesAfterTools
    /\ ForkedAt(MutatingSites) # {} => procs[1].refreshes >= 1

\* C16 amended: the command refreshes the keyboard mapping exactly twice before
\* the event loop; the first refresh comes after the process forked for the
\* dead-key removal has ended and before the layout install and the key remap
\* are forked, and the second comes after all three were waited for.
C16_FirstRefreshAfterDeadKeys ==
    /\ TwoRefreshesAfterTools
    /\ ForkedAt({"fork_layout", "fork_xmodmap"}) # {} => procs[1].refreshes >= 1
    /\ procs[1].refreshes >= 1 =>
           \A p \in ForkedAt({"fork_nodeadkeys"}) : procs[p].pc = "terminated"
    /\ procs[1].refreshes = 0 => procs[1].pc \notin {"fork_layout", "wait_layout",
                                                     "fork_xmodmap", "wait_xmodmap",
                                                     "refresh_new", "calloc", "loop"}

\* The command is in the event loop and the three tools have run, the dead-key
\* removal first.
C16_Witness ==
    /\ procs[1].pc = "loop"
    /\ procs[1].refreshes = 2
    /\ Len(toolCalls) = 3
    /\ \A k \in 1..3 : toolCalls[k].found /\ toolCalls[k].parent = 1
    /\ toolCalls[1].site = "exec_nodeadkeys"
    /\ Cardinality(ForkedAt(MutatingSites)) = 3

====
